---- MODULE Spec2Model ----
(***************************************************************************)
(* A model of vipsgen: the command-line driver (cmd/vipsgen/main.go), the  *)
(* template data aggregator and the generation driver                      *)
(* (internal/generator), and the layered binding code the generator emits  *)
(* for an operation, as shown for vips_resize in README.md.                *)
(*                                                                         *)
(* Strings whose content the code inspects (template names, paths) are     *)
(* sequences of one-character strings, so that filepath.Base,              *)
(* strings.HasSuffix, strings.TrimSuffix and filepath.Join are computed    *)
(* rather than assumed.                                                    *)
(***************************************************************************)
EXTENDS Integers, Sequences, FiniteSets, TLC

VARIABLES
    flags,          \* the parsed command line: [extract, out, templates, includeTest]
    args,           \* positional arguments left after flag.Parse()
    registry,       \* the native registry: [available, version, imageTypes, operations, enumTypes]
    loaderFiles,    \* what the template loader's ListFiles returns
    run,            \* "first" or "second" invocation of the program
    pc,             \* position in main / Generate
    exitStatus,     \* process exit status, meaningful when pc = "exited"
    logged,         \* messages written through the log package, in order
    loader,         \* main's loader: "none", "os" or "fs"
    outputDir,      \* main's outputDir
    registryCalls,  \* calls made on the introspection package, in order
    discovered,     \* main's vipsVersion, imageTypes, operations, enumTypes
    templateData,   \* main's templateData: <<>> before NewTemplateData, then <<data>>
    templateFiles,  \* Generate's templateFiles
    idx,            \* Generate's position in the range loop over templateFiles
    generatedFiles, \* Generate's generatedFiles
    genErr,         \* the error Generate returns, <<>> for nil
    skipped,        \* template files skipped by the running Generate, in order
    calls,          \* GenerateFile invocations of the running Generate, in order
    dirs,           \* directories existing on disk
    disk,           \* files on disk: records [path, unit, run, complete], one per path
    extracted,      \* state of the extract directory: "none", "partial", "all"
    prev,           \* what the first invocation did, <<>> during it
    image,          \* an *Image, called with the options as given
    twin,           \* the same image, called with nil replaced by the defaults
    lastCall,       \* the binding-layer call the last method call on image made
    twinCall,       \* the binding-layer call the last method call on twin made
    lastErr,        \* whether the last method call on image returned an error
    twinErr         \* whether the last method call on twin returned an error

genVars == <<flags, args, registry, loaderFiles, run, pc, exitStatus, logged,
             loader, outputDir, registryCalls, discovered, templateData,
             templateFiles, idx, generatedFiles, genErr, skipped, calls,
             dirs, disk, extracted, prev>>
apiVars == <<image, twin, lastCall, twinCall, lastErr, twinErr>>
vars == <<flags, args, registry, loaderFiles, run, pc, exitStatus, logged,
          loader, outputDir, registryCalls, discovered, templateData,
          templateFiles, idx, generatedFiles, genErr, skipped, calls,
          dirs, disk, extracted, prev, image, twin, lastCall, twinCall,
          lastErr, twinErr>>

\* Longest list of template files a loader returns in the model.
MaxUnits == 3

-----------------------------------------------------------------------------
(* Strings as character sequences.                                         *)

Slash == "/"
Dot == "."

TmplSuffix == <<".", "t", "m", "p", "l">>
TestTmplSuffix == <<"_", "t", "e", "s", "t", ".", "g", "o", ".", "t", "m", "p", "l">>

\* strings.HasSuffix
HasSuffix(s, suffix) ==
    /\ Len(s) >= Len(suffix)
    /\ SubSeq(s, Len(s) - Len(suffix) + 1, Len(s)) = suffix

\* strings.TrimSuffix
TrimSuffix(s, suffix) ==
    IF HasSuffix(s, suffix) THEN SubSeq(s, 1, Len(s) - Len(suffix)) ELSE s

RECURSIVE StripTrailingSlashes(_)
StripTrailingSlashes(p) ==
    IF Len(p) > 0 /\ p[Len(p)] = Slash
    THEN StripTrailingSlashes(SubSeq(p, 1, Len(p) - 1))
    ELSE p

\* Index of the last separator of p, 0 if there is none.
RECURSIVE LastSlash(_, _)
LastSlash(p, i) ==
    IF i = 0 THEN 0
    ELSE IF p[i] = Slash THEN i ELSE LastSlash(p, i - 1)

\* filepath.Base
Base(path) ==
    IF path = <<>> THEN <<Dot>>
    ELSE LET p == StripTrailingSlashes(path)
             i == LastSlash(p, Len(p))
             last == SubSeq(p, i + 1, Len(p))
         IN IF last = <<>> THEN <<Slash>> ELSE last

\* The elements of p between separators, empty ones included.
RECURSIVE SplitPath(_, _, _)
SplitPath(p, i, cur) ==
    IF i > Len(p) THEN <<cur>>
    ELSE IF p[i] = Slash THEN <<cur>> \o SplitPath(p, i + 1, <<>>)
         ELSE SplitPath(p, i + 1, Append(cur, p[i]))

\* filepath.Clean's element stack: "." and empty elements vanish, ".." removes
\* the element before it (or stays, at the front of a relative path).
RECURSIVE CleanElems(_, _, _, _)
CleanElems(elems, i, rooted, out) ==
    IF i > Len(elems) THEN out
    ELSE LET e == elems[i] IN
         IF e = <<>> \/ e = <<Dot>> THEN CleanElems(elems, i + 1, rooted, out)
         ELSE IF e = <<Dot, Dot>>
              THEN IF Len(out) > 0 /\ out[Len(out)] # <<Dot, Dot>>
                   THEN CleanElems(elems, i + 1, rooted, SubSeq(out, 1, Len(out) - 1))
                   ELSE IF rooted THEN CleanElems(elems, i + 1, rooted, out)
                        ELSE CleanElems(elems, i + 1, rooted, Append(out, e))
              ELSE CleanElems(elems, i + 1, rooted, Append(out, e))

RECURSIVE JoinElems(_, _)
JoinElems(elems, i) ==
    IF i > Len(elems) THEN <<>>
    ELSE IF i = Len(elems) THEN elems[i]
         ELSE elems[i] \o <<Slash>> \o JoinElems(elems, i + 1)

\* filepath.Clean
Clean(path) ==
    IF path = <<>> THEN <<Dot>>
    ELSE LET rooted == path[1] = Slash
             body == JoinElems(CleanElems(SplitPath(path, 1, <<>>), 1, rooted, <<>>), 1)
         IN IF rooted THEN <<Slash>> \o body
            ELSE IF body = <<>> THEN <<Dot>> ELSE body

\* filepath.Join of two elements
Join(dir, name) ==
    IF dir = <<>> /\ name = <<>> THEN <<>>
    ELSE IF dir = <<>> THEN Clean(name)
    ELSE IF name = <<>> THEN Clean(dir)
    ELSE Clean(dir \o <<Slash>> \o name)

-----------------------------------------------------------------------------
(* Inputs: the command line, the registry, the template source.            *)

\* The value of -out when the flag is not given (main.go:15).
DefaultOutFlag == <<".", "/", "v", "i", "p", "s">>
\* main's last-resort output directory (main.go:57).
FallbackOutputDir == <<".", "/", "v", "i", "p", "s">>

OutFlagValues == {DefaultOutFlag, <<>>, <<".", "/", "g", "e", "n">>}
ArgValues == {<<>>, << <<"p", "o", "s">> >>}
TemplatesFlagValues == {"", "tdir"}

FlagValues ==
    [extract : BOOLEAN, out : OutFlagValues,
     templates : TemplatesFlagValues, includeTest : BOOLEAN]

UnitA == <<"a">> \o <<".", "g", "o">> \o TmplSuffix
UnitATest == <<"a">> \o TestTmplSuffix
UnitDA == <<"d", "/", "a">> \o <<".", "g", "o">> \o TmplSuffix
UnitDBTest == <<"d", "/", "b">> \o TestTmplSuffix
Units == {UnitA, UnitATest, UnitDA, UnitDBTest}

\* Lists of distinct template files, as a directory walk yields them.
UnitLists ==
    UNION {{s \in [1..n -> Units] : \A i, j \in 1..n : i # j => s[i] # s[j]} :
           n \in 0..MaxUnits}

RegistryStates ==
    { [available |-> FALSE, version |-> "", imageTypes |-> <<>>,
       operations |-> <<>>, enumTypes |-> <<>>],
      [available |-> TRUE, version |-> "8.18.0", imageTypes |-> <<"jpeg", "png">>,
       operations |-> <<"resize", "embed">>, enumTypes |-> <<"Kernel", "Extend">>],
      [available |-> TRUE, version |-> "8.16.1", imageTypes |-> <<"png">>,
       operations |-> <<"embed", "resize", "webpsave">>, enumTypes |-> <<"Extend">>] }

-----------------------------------------------------------------------------
(* internal/generator                                                      *)

\* NewTemplateData with the EnumTypes field left out of the literal.
NewTemplateDataNoEnums(vipsVersion, operations, enumTypes, imageTypes, includeTest) ==
    [VipsVersion |-> vipsVersion,
     Operations |-> operations,
     EnumTypes |-> <<>>,
     ImageTypes |-> imageTypes,
     IncludeTest |-> includeTest]

\* NewTemplateData
NewTemplateData(vipsVersion, operations, enumTypes, imageTypes, includeTest) ==
    [VipsVersion |-> vipsVersion,
     Operations |-> operations,
     EnumTypes |-> enumTypes,
     ImageTypes |-> imageTypes,
     IncludeTest |-> includeTest]

\* Generate: the output file of a template file
OutputFile(dir, templateFile) ==
    Join(dir, TrimSuffix(Base(templateFile), TmplSuffix))

\* The skip test with the flag's sense inverted.
SkipTemplateInverted(data, templateFile) ==
    data.IncludeTest /\ HasSuffix(Base(templateFile), TestTmplSuffix)

\* The skip test extended to files that already exist in the output directory.
SkipTemplateExisting(data, templateFile) ==
    \/ ~data.IncludeTest /\ HasSuffix(Base(templateFile), TestTmplSuffix)
    \/ \E f \in disk : f.path = OutputFile(outputDir, templateFile)

\* Generate: whether a template file is skipped
SkipTemplate(data, templateFile) ==
    ~data.IncludeTest /\ HasSuffix(Base(templateFile), TestTmplSuffix)

\* The file system after a file is created or replaced at f.path.
WriteFile(d, f) == {g \in d : g.path # f.path} \cup {f}

\* A fatal log call: the message is logged and the process exits with status 1.
Fatalf(msg, cause) ==
    /\ logged' = Append(logged, <<"Fatalf", msg, cause>>)
    /\ exitStatus' = 1
    /\ pc' = "exited"

Printf(msg, arg) == logged' = Append(logged, <<"Printf", msg, arg>>)

NoLocals == [vipsVersion |-> "", imageTypes |-> <<>>, operations |-> <<>>,
             enumTypes |-> <<>>]

\* No image is loaded while the generator runs.
NoImage == [width |-> 0, height |-> 0, look |-> <<>>]

Init ==
    /\ flags \in FlagValues
    /\ args \in ArgValues
    /\ registry \in RegistryStates
    /\ loaderFiles \in UnitLists
    /\ run = "first"
    /\ pc = "start"
    /\ exitStatus = 0
    /\ logged = <<>>
    /\ loader = "none"
    /\ outputDir = <<>>
    /\ registryCalls = <<>>
    /\ discovered = NoLocals
    /\ templateData = <<>>
    /\ templateFiles = <<>>
    /\ idx = 0
    /\ generatedFiles = <<>>
    /\ genErr = <<>>
    /\ skipped = <<>>
    /\ calls = <<>>
    /\ dirs = {}
    /\ disk = {}
    /\ extracted = "none"
    /\ prev = <<>>
    /\ image = NoImage
    /\ twin = NoImage
    /\ lastCall = <<>>
    /\ twinCall = <<>>
    /\ lastErr = FALSE
    /\ twinErr = FALSE

envVars == <<flags, args, registry, loaderFiles, run, prev>>
genLocals == <<templateFiles, idx, generatedFiles, genErr, skipped, calls>>

\* main.go:22-30: extraction mode. ExtractEmbeddedFS either copies everything
\* or fails, possibly after copying some files.
MainExtract ==
    /\ pc = "start"
    /\ flags.extract
    /\ \/ /\ extracted' = "all"
          /\ Printf("Templates and static files extracted to", "extract-dir")
          /\ exitStatus' = 0
          /\ pc' = "exited"
       \/ /\ extracted' \in {extracted, "partial"}
          /\ Fatalf("Failed to extract templates", "extract error")
    /\ UNCHANGED <<envVars, genLocals, loader, outputDir, registryCalls,
                   discovered, templateData, dirs, disk, apiVars>>

\* The template source chosen without looking at -extract.
MainLoaderIgnoringExtract ==
    /\ pc = "start"
    /\ loader' = "fs"
    /\ Printf("Using embedded templates", "")
    /\ pc' = "outdir"
    /\ UNCHANGED <<envVars, genLocals, exitStatus, outputDir, registryCalls,
                   discovered, templateData, dirs, disk, extracted, apiVars>>

\* main.go:32-49: the template source
MainLoader ==
    /\ pc = "start"
    /\ ~flags.extract
    /\ IF flags.templates # ""
       THEN \/ /\ loader' = "os"
               /\ Printf("Using templates from", flags.templates)
               /\ pc' = "outdir"
               /\ UNCHANGED exitStatus
            \/ /\ Fatalf("Failed to create template loader", "loader error")
               /\ UNCHANGED loader
       ELSE /\ loader' = "fs"
            /\ Printf("Using embedded templates", "")
            /\ pc' = "outdir"
            /\ UNCHANGED exitStatus
    /\ UNCHANGED <<envVars, genLocals, outputDir, registryCalls, discovered,
                   templateData, dirs, disk, extracted, apiVars>>

\* main.go:51-58: the output directory
ResolveOutputDir(outFlag, positional) ==
    IF outFlag # <<>> THEN outFlag
    ELSE IF Len(positional) > 0 THEN positional[1]
    ELSE FallbackOutputDir

\* The output directory created as soon as it is known.
MainOutputDirCreated ==
    /\ pc = "outdir"
    /\ outputDir' = ResolveOutputDir(flags.out, args)
    /\ dirs' = dirs \cup {Clean(ResolveOutputDir(flags.out, args))}
    /\ pc' = "introspect"
    /\ UNCHANGED <<envVars, genLocals, exitStatus, logged, loader, registryCalls,
                   discovered, templateData, disk, extracted, apiVars>>

MainOutputDir ==
    /\ pc = "outdir"
    /\ outputDir' = ResolveOutputDir(flags.out, args)
    /\ pc' = "introspect"
    /\ UNCHANGED <<envVars, genLocals, exitStatus, logged, loader, registryCalls,
                   discovered, templateData, dirs, disk, extracted, apiVars>>

\* main.go:61
MainNewIntrospection ==
    /\ pc = "introspect"
    /\ registry.available
    /\ registryCalls' = Append(registryCalls, "NewIntrospection")
    /\ pc' = "version"
    /\ UNCHANGED <<envVars, genLocals, exitStatus, logged, loader, outputDir,
                   discovered, templateData, dirs, disk, extracted, apiVars>>

\* The registry cannot be initialized: a fatal discovery error.
DiscoveryFails ==
    /\ pc = "introspect"
    /\ ~registry.available
    /\ registryCalls' = Append(registryCalls, "NewIntrospection")
    /\ Fatalf("DiscoveryError", "native registry unavailable")
    /\ UNCHANGED <<envVars, genLocals, loader, outputDir, discovered,
                   templateData, dirs, disk, extracted, apiVars>>

\* main.go:64
MainGetVipsVersion ==
    /\ pc = "version"
    /\ registryCalls' = Append(registryCalls, "GetVipsVersion")
    /\ discovered' = [discovered EXCEPT !.vipsVersion = registry.version]
    /\ pc' = "imageTypes"
    /\ UNCHANGED <<envVars, genLocals, exitStatus, logged, loader, outputDir,
                   templateData, dirs, disk, extracted, apiVars>>

\* main.go:67
MainDiscoverImageTypes ==
    /\ pc = "imageTypes"
    /\ registryCalls' = Append(registryCalls, "DiscoverImageTypes")
    /\ discovered' = [discovered EXCEPT !.imageTypes = registry.imageTypes]
    /\ pc' = "operations"
    /\ UNCHANGED <<envVars, genLocals, exitStatus, logged, loader, outputDir,
                   templateData, dirs, disk, extracted, apiVars>>

\* main.go:70-71
MainDiscoverOperations ==
    /\ pc = "operations"
    /\ registryCalls' = Append(registryCalls, "DiscoverOperations")
    /\ discovered' = [discovered EXCEPT !.operations = registry.operations]
    /\ Printf("Extracted operations", Len(registry.operations))
    /\ pc' = "enumTypes"
    /\ UNCHANGED <<envVars, genLocals, exitStatus, loader, outputDir,
                   templateData, dirs, disk, extracted, apiVars>>

\* main.go:74-75
MainDiscoverEnumTypes ==
    /\ pc = "enumTypes"
    /\ registryCalls' = Append(registryCalls, "DiscoverEnumTypes")
    /\ discovered' = [discovered EXCEPT !.enumTypes = registry.enumTypes]
    /\ Printf("Discovered enum types", Len(registry.enumTypes))
    /\ pc' = "templateData"
    /\ UNCHANGED <<envVars, genLocals, exitStatus, loader, outputDir,
                   templateData, dirs, disk, extracted, apiVars>>

\* main.go:78
MainNewTemplateData ==
    /\ pc = "templateData"
    /\ templateData' = << NewTemplateData(discovered.vipsVersion, discovered.operations,
                                          discovered.enumTypes, discovered.imageTypes,
                                          flags.includeTest) >>
    /\ pc' = "generate"
    /\ UNCHANGED <<envVars, genLocals, exitStatus, logged, loader, outputDir,
                   registryCalls, discovered, dirs, disk, extracted, apiVars>>

\* Generate, lines 410-413: the output directory
GenMkdirAll ==
    /\ pc = "generate"
    /\ \/ /\ dirs' = dirs \cup {Clean(outputDir)}
          /\ pc' = "list"
          /\ UNCHANGED genErr
       \/ /\ genErr' = <<"failed to create output directory">>
          /\ pc' = "returned"
          /\ UNCHANGED dirs
    /\ UNCHANGED <<envVars, templateFiles, idx, generatedFiles, skipped, calls,
                   exitStatus, logged, loader, outputDir, registryCalls,
                   discovered, templateData, disk, extracted, apiVars>>

\* Generate, lines 415-422: the template files
GenListFiles ==
    /\ pc = "list"
    /\ \/ /\ templateFiles' = loaderFiles
          /\ generatedFiles' = <<>>
          /\ idx' = 1
          /\ pc' = "loop"
          /\ UNCHANGED genErr
       \/ /\ genErr' = <<"failed to list template files">>
          /\ pc' = "returned"
          /\ UNCHANGED <<templateFiles, generatedFiles, idx>>
    /\ UNCHANGED <<envVars, skipped, calls, exitStatus, logged, loader, outputDir,
                   registryCalls, discovered, templateData, dirs, disk,
                   extracted, apiVars>>

\* Generate, lines 424-433: a test template is skipped
GenSkip ==
    /\ pc = "loop"
    /\ idx <= Len(templateFiles)
    /\ SkipTemplate(templateData[1], templateFiles[idx])
    /\ Printf("Skipping test template", Base(templateFiles[idx]))
    /\ skipped' = Append(skipped, templateFiles[idx])
    /\ idx' = idx + 1
    /\ UNCHANGED <<envVars, templateFiles, generatedFiles, genErr, calls, pc,
                   exitStatus, loader, outputDir, registryCalls, discovered,
                   templateData, dirs, disk, extracted, apiVars>>

\* TemplateLoader.GenerateFile: renders the template into outputFile; a failure
\* leaves the file system as it was or leaves an incomplete file behind.
GenerateFile(templateFile, outputFile, ok) ==
    IF ok
    THEN disk' = WriteFile(disk, [path |-> outputFile, unit |-> templateFile,
                                  run |-> run, complete |-> TRUE])
    ELSE disk' \in {disk, WriteFile(disk, [path |-> outputFile, unit |-> templateFile,
                                           run |-> run, complete |-> FALSE])}

\* The loop going on to the next template file after a failed GenerateFile.
GenGenerateContinue ==
    /\ pc = "loop"
    /\ idx <= Len(templateFiles)
    /\ ~SkipTemplate(templateData[1], templateFiles[idx])
    /\ LET templateFile == templateFiles[idx]
           outputFile == OutputFile(outputDir, templateFile)
       IN /\ calls' = Append(calls, [templateFile |-> templateFile,
                                     outputFile |-> outputFile])
          /\ \/ /\ GenerateFile(templateFile, outputFile, TRUE)
                /\ generatedFiles' = Append(generatedFiles, outputFile)
                /\ UNCHANGED genErr
             \/ /\ GenerateFile(templateFile, outputFile, FALSE)
                /\ genErr' = <<"failed to generate", outputFile>>
                /\ UNCHANGED generatedFiles
          /\ idx' = idx + 1
          /\ UNCHANGED pc
    /\ UNCHANGED <<envVars, templateFiles, skipped, exitStatus, logged, loader,
                   outputDir, registryCalls, discovered, templateData, dirs,
                   extracted, apiVars>>

\* Generate, lines 424-440: a template file is generated
GenGenerate ==
    /\ pc = "loop"
    /\ idx <= Len(templateFiles)
    /\ ~SkipTemplate(templateData[1], templateFiles[idx])
    /\ LET templateFile == templateFiles[idx]
           outputFile == OutputFile(outputDir, templateFile)
       IN /\ calls' = Append(calls, [templateFile |-> templateFile,
                                     outputFile |-> outputFile])
          /\ \/ /\ GenerateFile(templateFile, outputFile, TRUE)
                /\ generatedFiles' = Append(generatedFiles, outputFile)
                /\ idx' = idx + 1
                /\ UNCHANGED <<genErr, pc>>
             \/ /\ GenerateFile(templateFile, outputFile, FALSE)
                /\ genErr' = <<"failed to generate", outputFile>>
                /\ pc' = "returned"
                /\ UNCHANGED <<generatedFiles, idx>>
    /\ UNCHANGED <<envVars, templateFiles, skipped, exitStatus, logged, loader,
                   outputDir, registryCalls, discovered, templateData, dirs,
                   extracted, apiVars>>

\* Generate, lines 442-446: the report of a successful run
GenReport ==
    /\ pc = "loop"
    /\ idx > Len(templateFiles)
    /\ Printf("Successfully generated files from templates", generatedFiles)
    /\ pc' = "returned"
    /\ UNCHANGED <<envVars, genLocals, exitStatus, loader, outputDir,
                   registryCalls, discovered, templateData, dirs, disk,
                   extracted, apiVars>>

\* main.go:81-84: Generate has returned
MainAfterGenerate ==
    /\ pc = "returned"
    /\ IF genErr # <<>>
       THEN Fatalf("Failed to generate code", genErr)
       ELSE /\ exitStatus' = 0
            /\ pc' = "exited"
            /\ UNCHANGED logged
    /\ UNCHANGED <<envVars, genLocals, loader, outputDir, registryCalls,
                   discovered, templateData, dirs, disk, extracted, apiVars>>

\* What an invocation did, kept for comparison with the next one.
RunRecord ==
    [skipped |-> skipped, calls |-> calls, exitStatus |-> exitStatus,
     reported |-> SelectSeq(logged, LAMBDA m : m[2] = "Successfully generated files from templates")]

\* The program is invoked a second time with the same command line, on the
\* same registry and template source; the file system is what the first
\* invocation left.
Rerun ==
    /\ pc = "exited"
    /\ run = "first"
    /\ run' = "second"
    /\ prev' = <<RunRecord>>
    /\ pc' = "start"
    /\ exitStatus' = 0
    /\ logged' = <<>>
    /\ loader' = "none"
    /\ outputDir' = <<>>
    /\ registryCalls' = <<>>
    /\ discovered' = NoLocals
    /\ templateData' = <<>>
    /\ templateFiles' = <<>>
    /\ idx' = 0
    /\ generatedFiles' = <<>>
    /\ genErr' = <<>>
    /\ skipped' = <<>>
    /\ calls' = <<>>
    /\ UNCHANGED <<flags, args, registry, loaderFiles, dirs, disk, extracted, apiVars>>

Next ==
    \/ MainExtract
    \/ MainLoader
    \/ MainOutputDir
    \/ MainNewIntrospection
    \/ DiscoveryFails
    \/ MainGetVipsVersion
    \/ MainDiscoverImageTypes
    \/ MainDiscoverOperations
    \/ MainDiscoverEnumTypes
    \/ MainNewTemplateData
    \/ GenMkdirAll
    \/ GenListFiles
    \/ GenSkip
    \/ GenGenerate
    \/ GenReport
    \/ MainAfterGenerate
    \/ Rerun

Spec == Init /\ [][Next]_vars

-----------------------------------------------------------------------------
(* Properties of the generation driver and of main.                        *)

IsTestUnit(templateFile) == HasSuffix(Base(templateFile), TestTmplSuffix)

Succeeded == pc = "exited" /\ exitStatus = 0 /\ ~flags.extract

CallsFor(unit) == {i \in 1..Len(calls) : calls[i].templateFile = unit}

ThisRunFiles == {f \in disk : f.run = run}

\* C1: without -include-test GenerateFile is never invoked for a template file
\* whose base name ends in "_test.go.tmpl" and the run writes no file for it;
\* with -include-test a successful run has invoked GenerateFile exactly once
\* for each such file of the list and its output file is on disk, complete.
SkipOnMissingFlag ==
    /\ ~flags.includeTest =>
         /\ \A i \in 1..Len(calls) : ~IsTestUnit(calls[i].templateFile)
         /\ \A f \in ThisRunFiles : ~IsTestUnit(f.unit)
    /\ (flags.includeTest /\ Succeeded) =>
         \A k \in 1..Len(loaderFiles) :
            IsTestUnit(loaderFiles[k]) =>
               /\ Cardinality(CallsFor(loaderFiles[k])) = 1
               /\ \A i \in CallsFor(loaderFiles[k]) :
                     /\ \E j \in 1..Len(generatedFiles) :
                           generatedFiles[j] = calls[i].outputFile
                     /\ \E f \in ThisRunFiles :
                           f.path = calls[i].outputFile /\ f.complete

\* C1 witness: a run without the flag has succeeded, skipping a test template
\* and generating another file.
SkipOnMissingFlagWitness ==
    /\ Succeeded
    /\ ~flags.includeTest
    /\ skipped # <<>>
    /\ calls # <<>>

\* C4: when GenerateFile fails, no output file of an earlier template file of
\* the same run is on disk.
NoPartialOutputOnFailure ==
    (genErr # <<>> /\ genErr[1] = "failed to generate") =>
        \A i \in 1..(Len(calls) - 1) :
            ~\E f \in ThisRunFiles :
                f.path = calls[i].outputFile /\ f.unit = calls[i].templateFile

\* C5: once GenerateFile has failed, the failing call is the last one made,
\* Generate has returned an error naming that call's output file, no success
\* report is logged, and the process exits with status 1 after logging the
\* error.
FailureAbortsRun ==
    /\ (genErr # <<>> /\ genErr[1] = "failed to generate") =>
          /\ pc \in {"returned", "exited"}
          /\ calls # <<>>
          /\ calls[Len(calls)].outputFile = genErr[2]
          /\ calls[Len(calls)].templateFile = templateFiles[idx]
          /\ Len(generatedFiles) = Len(calls) - 1
          /\ \A k \in 1..Len(logged) :
                logged[k][2] # "Successfully generated files from templates"
    /\ (genErr # <<>> /\ pc = "exited") =>
          /\ exitStatus # 0
          /\ logged[Len(logged)] = <<"Fatalf", "Failed to generate code", genErr>>
    /\ (pc = "exited" /\ exitStatus = 0 /\ ~flags.extract) => genErr = <<>>

\* C5 witness: the process has exited after GenerateFile failed on a template
\* file that is not the last of the list.
FailureAbortsRunWitness ==
    /\ pc = "exited"
    /\ genErr # <<>>
    /\ genErr[1] = "failed to generate"
    /\ idx < Len(templateFiles)
    /\ Len(calls) > 1

\* C6: after a successful run the output paths of the generated template
\* files are pairwise distinct, so the run has written as many files as it
\* has generated template files.
OneFilePerUnit ==
    Succeeded =>
        /\ \A i, j \in 1..Len(calls) :
              i # j => calls[i].outputFile # calls[j].outputFile
        /\ Cardinality(ThisRunFiles) = Len(calls)

\* C7: with -extract the registry is never called, no loader is created,
\* Generate is never entered and nothing is written to an output directory;
\* the process exits with status 0 exactly when the templates were copied.
ExtractLogged ==
    /\ logged # <<>>
    /\ logged[Len(logged)][1] = "Printf"
    /\ logged[Len(logged)][2] = "Templates and static files extracted to"

ExtractionMode ==
    flags.extract =>
        /\ registryCalls = <<>>
        /\ loader = "none"
        /\ templateData = <<>>
        /\ pc \in {"start", "exited"}
        /\ calls = <<>> /\ skipped = <<>>
        /\ dirs = {} /\ disk = {}
        /\ pc = "exited" => (exitStatus = 0 <=> ExtractLogged)
        /\ (pc = "exited" /\ ExtractLogged) => extracted = "all"

\* C7 witness: extraction has exited with status 0 although -templates and
\* -include-test were given too.
ExtractionModeWitness ==
    /\ flags.extract /\ flags.templates # "" /\ flags.includeTest
    /\ pc = "exited" /\ exitStatus = 0 /\ extracted = "all"

AllDiscovery ==
    <<"NewIntrospection", "GetVipsVersion", "DiscoverImageTypes",
      "DiscoverOperations", "DiscoverEnumTypes">>

\* C8: the output directory exists and output files are written only after
\* the version query and the three discoveries have completed, in that
\* order; when the registry is unavailable nothing is ever written.
DiscoveryPrecedesOutput ==
    /\ (run = "first" /\ (dirs # {} \/ disk # {})) => registryCalls = AllDiscovery
    /\ (ThisRunFiles # {} \/ calls # <<>> \/ pc \in {"list", "loop", "returned"})
          => registryCalls = AllDiscovery
    /\ ~registry.available => (dirs = {} /\ disk = {} /\ calls = <<>>)
    /\ (~registry.available /\ pc = "exited" /\ ~flags.extract /\ loader # "none")
          => exitStatus # 0

\* C8 witness: a first run has written a file.
DiscoveryPrecedesOutputWitness ==
    /\ run = "first"
    /\ disk # {}
    /\ registryCalls = AllDiscovery

\* C9: the TemplateData holds the version, the operations, enum types and
\* image types exactly as discovered, in discovery order, and the
\* -include-test flag, and it stays so while Generate runs.
AggregatorFaithful ==
    templateData # <<>> =>
        /\ Len(templateData) = 1
        /\ templateData[1].VipsVersion = registry.version
        /\ templateData[1].Operations = registry.operations
        /\ templateData[1].EnumTypes = registry.enumTypes
        /\ templateData[1].ImageTypes = registry.imageTypes
        /\ templateData[1].IncludeTest = flags.includeTest

\* C9 witness: Generate is past its first template file, on a TemplateData
\* with several operations and enum types.
AggregatorFaithfulWitness ==
    /\ templateData # <<>>
    /\ pc = "loop" /\ idx > 1
    /\ Len(templateData[1].Operations) > 2
    /\ Len(registry.enumTypes) > 0

IsPrefix(s, t) == Len(s) <= Len(t) /\ SubSeq(t, 1, Len(s)) = s
PrefixConsistent(s, t) == IsPrefix(s, t) \/ IsPrefix(t, s)
InSeq(x, s) == \E i \in 1..Len(s) : s[i] = x
Called(unit, cs) == \E i \in 1..Len(cs) : cs[i].templateFile = unit
Decided(unit, sk, cs) == InSeq(unit, sk) \/ Called(unit, cs)

\* C10: a second run with the same command line, registry and template
\* source takes, for every template file both runs reach, the same skip
\* decision; its GenerateFile calls (template file and output path, in order)
\* and its skips agree with the first run's as far as both go; and when both
\* runs succeed the calls, the skips and the reported list are the same.
Determinism ==
    run = "second" =>
        /\ \A u \in Units :
              (Decided(u, skipped, calls) /\ Decided(u, prev[1].skipped, prev[1].calls))
                 => (InSeq(u, skipped) <=> InSeq(u, prev[1].skipped))
        /\ PrefixConsistent(calls, prev[1].calls)
        /\ PrefixConsistent(skipped, prev[1].skipped)
        /\ (Succeeded /\ prev[1].exitStatus = 0) =>
              /\ calls = prev[1].calls
              /\ skipped = prev[1].skipped
              /\ RunRecord.reported = prev[1].reported

\* C10 witness: both runs have succeeded, each skipping a template file and
\* generating two.
DeterminismWitness ==
    /\ run = "second"
    /\ Succeeded
    /\ prev[1].exitStatus = 0
    /\ Len(calls) > 1
    /\ skipped # <<>>

-----------------------------------------------------------------------------
(* The generated layers of one operation, vips_resize, as README.md shows  *)
(* them. Scales are in percent; an image is its size and the kernel and    *)
(* gap its pixels were last resampled with.                                *)

\* Largest image side the native library accepts in the model.
MaxDim == 8

Scales == {50, 100, 200}

LoadableImages ==
    {[width |-> 4, height |-> 4, look |-> <<>>],
     [width |-> 3, height |-> 6, look |-> <<>>]}

\* vips_resize's own defaults for the optional arguments it always has a
\* value for; "vscale" has none: unset, the vertical scale is "scale".
NativeDefaults == [kernel |-> 5, gap |-> 2]

Prop(props, name, default) ==
    IF name \in DOMAIN props THEN props[name] ELSE default

Scaled(side, scale) ==
    LET v == (side * scale) \div 100 IN IF v < 1 THEN 1 ELSE v

\* libvips: the resize operation run with the properties set on it.
NativeResize(in, scale, props) ==
    LET vscale == Prop(props, "vscale", scale)
        w == Scaled(in.width, scale)
        h == Scaled(in.height, vscale)
    IN IF scale <= 0 \/ vscale <= 0 \/ w > MaxDim \/ h > MaxDim
       THEN [status |-> 1, out |-> in]
       ELSE [status |-> 0,
             out |-> [width |-> w, height |-> h,
                      look |-> <<Prop(props, "kernel", NativeDefaults.kernel),
                                 Prop(props, "gap", NativeDefaults.gap)>>]]

\* vipsgen_set_int / vipsgen_set_double: a zero value is an omitted optional
\* argument and leaves the property unset.
vipsgen_set(props, name, value) ==
    IF value = 0 THEN props
    ELSE [k \in DOMAIN props \cup {name} |-> IF k = name THEN value ELSE props[k]]

\* C layer
vipsgen_resize(in, scale) == NativeResize(in, scale, <<>>)

vipsgen_resize_with_options(in, scale, kernel, gap, vscale) ==
    NativeResize(in, scale,
        vipsgen_set(vipsgen_set(vipsgen_set(<<>>, "kernel", kernel), "gap", gap),
                    "vscale", vscale))

\* Go binding layer
vipsgenResize(in, scale) ==
    LET r == vipsgen_resize(in, scale)
    IN [call |-> [fn |-> "vipsgenResize", params |-> <<"in", "scale">>,
                  in |-> in, values |-> <<scale>>],
        err |-> r.status # 0, out |-> r.out]

\* The optional-inclusive call with an optional argument ahead of "scale".
vipsgenResizeWithOptionsReordered(in, scale, kernel, gap, vscale) ==
    LET r == vipsgen_resize_with_options(in, scale, kernel, gap, vscale)
    IN [call |-> [fn |-> "vipsgenResizeWithOptions",
                  params |-> <<"in", "kernel", "scale", "gap", "vscale">>,
                  in |-> in, values |-> <<kernel, scale, gap, vscale>>],
        err |-> r.status # 0, out |-> r.out]

vipsgenResizeWithOptions(in, scale, kernel, gap, vscale) ==
    LET r == vipsgen_resize_with_options(in, scale, kernel, gap, vscale)
    IN [call |-> [fn |-> "vipsgenResizeWithOptions",
                  params |-> <<"in", "scale", "kernel", "gap", "vscale">>,
                  in |-> in, values |-> <<scale, kernel, gap, vscale>>],
        err |-> r.status # 0, out |-> r.out]

\* Go method layer: the fields of ResizeOptions, in order, with the argument
\* each stands for.
ResizeOptionsFields ==
    <<[field |-> "Kernel", arg |-> "kernel"],
      [field |-> "Gap", arg |-> "gap"],
      [field |-> "Vscale", arg |-> "vscale"]>>

\* Defaults generated with another kernel than the operation's.
DefaultResizeOptionsOtherKernel == [Kernel |-> 3, Gap |-> 2, Vscale |-> 0]

DefaultResizeOptions == [Kernel |-> 5, Gap |-> 2, Vscale |-> 0]

\* (r *Image) Resize: options is <<>> for nil, <<o>> for a pointer to o.
Resize(r, scale, options) ==
    LET b == IF options # <<>>
             THEN vipsgenResizeWithOptions(r, scale, options[1].Kernel,
                                           options[1].Gap, options[1].Vscale)
             ELSE vipsgenResize(r, scale)
    IN [image |-> IF b.err THEN r ELSE b.out, err |-> b.err, call |-> b.call]

OptionChoices ==
    {<<>>,
     <<DefaultResizeOptions>>,
     <<[Kernel |-> 3, Gap |-> 2, Vscale |-> 0]>>,
     <<[Kernel |-> 0, Gap |-> 0, Vscale |-> 200]>>}

\* nil replaced by the generated defaults
Configured(options) ==
    IF options = <<>> THEN <<DefaultResizeOptions>> ELSE options

InitAPI ==
    /\ flags = [extract |-> FALSE, out |-> DefaultOutFlag, templates |-> "",
                includeTest |-> FALSE]
    /\ args = <<>>
    /\ registry \in {r \in RegistryStates : ~r.available}
    /\ loaderFiles = <<>>
    /\ run = "first"
    /\ pc = "start"
    /\ exitStatus = 0
    /\ logged = <<>>
    /\ loader = "none"
    /\ outputDir = <<>>
    /\ registryCalls = <<>>
    /\ discovered = NoLocals
    /\ templateData = <<>>
    /\ templateFiles = <<>>
    /\ idx = 0
    /\ generatedFiles = <<>>
    /\ genErr = <<>>
    /\ skipped = <<>>
    /\ calls = <<>>
    /\ dirs = {}
    /\ disk = {}
    /\ extracted = "none"
    /\ prev = <<>>
    /\ image \in LoadableImages
    /\ twin = image
    /\ lastCall = <<>>
    /\ twinCall = <<>>
    /\ lastErr = FALSE
    /\ twinErr = FALSE

\* An image is loaded; both receivers hold it.
NewImage ==
    /\ image' \in LoadableImages
    /\ twin' = image'
    /\ lastCall' = <<>>
    /\ twinCall' = <<>>
    /\ lastErr' = FALSE
    /\ twinErr' = FALSE
    /\ UNCHANGED genVars

\* img.Resize(scale, options) on image, and the same call on twin with nil
\* replaced by DefaultResizeOptions().
ImageResize ==
    /\ \E scale \in Scales, options \in OptionChoices :
          LET a == Resize(image, scale, options)
              t == Resize(twin, scale, Configured(options))
          IN /\ image' = a.image
             /\ lastErr' = a.err
             /\ lastCall' = <<a.call>>
             /\ twin' = t.image
             /\ twinErr' = t.err
             /\ twinCall' = <<t.call>>
    /\ UNCHANGED genVars

NextAPI ==
    \/ NewImage
    \/ ImageResize

SpecAPI == InitAPI /\ [][NextAPI]_vars

IsStrictPrefix(s, t) == Len(s) < Len(t) /\ SubSeq(t, 1, Len(s)) = s

ArgNames(fields) == [i \in 1..Len(fields) |-> fields[i].arg]

-----------------------------------------------------------------------------
(* The output directory.                                                   *)

\* README.md, Command Line Options: -out string  Output directory (default "./out")
DocumentedDefaultOut == <<".", "/", "o", "u", "t">>

\* -out was not given: the flag holds the default main registers for it.
OutFlagAbsent == flags.out = DefaultOutFlag

\* C11: once main has determined the output directory, it is "./out" when
\* -out was not given and the value of -out when that is given and not
\* empty, and every GenerateFile call of the run writes into it.
OutputDirSelection ==
    (~flags.extract /\ pc \notin {"start", "outdir"}
                    /\ (pc = "exited" => registryCalls # <<>>)) =>
        LET expected == IF OutFlagAbsent THEN DocumentedDefaultOut ELSE flags.out
        IN flags.out # <<>> =>
              /\ outputDir = expected
              /\ \A i \in 1..Len(calls) :
                    calls[i].outputFile =
                        Join(expected, TrimSuffix(Base(calls[i].templateFile), TmplSuffix))

====
